---------------------------- MODULE Spec2Model ----------------------------
(***************************************************************************)
(* A model of the five utility functions of ulhaq-fx (src/src/index.ts):   *)
(* slugify, resolveObjectPath, extractNumber, transformEmptyValues and     *)
(* replaceString.                                                          *)
(*                                                                         *)
(* The functions are pure, so the state is one call: its arguments (args), *)
(* where the call stands (pc) and what it produced (result; rerun for the  *)
(* second transformEmptyValues call on the first one's output; emitted for *)
(* the log of replaceString's replacer callback).  Each function has a     *)
(* specification of its own whose Init draws the arguments from bounded    *)
(* sets and whose action applies the function.                             *)
(*                                                                         *)
(* JavaScript values are tagged records.  A string is a sequence of        *)
(* characters, a character a one-token TLA+ string ("a", " ", "U+0130").   *)
(* A number is n/d with d a power of ten (d = 1 for an integer).           *)
(***************************************************************************)
EXTENDS Integers, Sequences, FiniteSets

VARIABLES pc, args, result, rerun, emitted

vars == <<pc, args, result, rerun, emitted>>

-----------------------------------------------------------------------------
(* JavaScript values *)

Undefined == [t |-> "undefined"]

Null == [t |-> "null"]

Bool(b) == [t |-> "boolean", b |-> b]

Num(n) == [t |-> "number", n |-> n, d |-> 1]

Dec(n, d) == [t |-> "number", n |-> n, d |-> d]

Str(s) == [t |-> "string", s |-> s]

Arr(e) == [t |-> "array", e |-> e]

\* A mapping: its keys in Object.entries order, and the value of each.
Obj(k, v) == [t |-> "object", k |-> k, v |-> v]

IsArray(x) == x.t = "array"

\* typeof x === "object" && x !== null
IsObjectLike(x) == x.t \in {"array", "object"}

\* What a call produced.
Pending == [kind |-> "pending"]

Return(v) == [kind |-> "return", value |-> v]

Throw(e) == [kind |-> "throw", error |-> e]

-----------------------------------------------------------------------------
(* Sequence helpers *)

RECURSIVE Flatten(_)
\* The concatenation of a sequence of sequences (Array.prototype.join("") on
\* strings).
Flatten(ss) == IF ss = <<>> THEN <<>> ELSE Head(ss) \o Flatten(Tail(ss))

\* All sequences over S of length at most n.
SeqsUpTo(S, n) == UNION {[1..k -> S] : k \in 0..n}

-----------------------------------------------------------------------------
(* slugify *)

\* Bound: the longest text slugify is applied to.
MaxSlugLen == 3

\* Characters: an ASCII lowercase letter, an ASCII uppercase letter, a digit,
\* the underscore, the hyphen, the space, the tab, a punctuation mark, a
\* non-ASCII uppercase letter with a one-character lowercase form (U+00C9),
\* that form (U+00E9), the dotted capital I (U+0130), whose lowercase form is
\* "i" followed by the combining dot U+0307.
SlugChars == {"a", "A", "7", "_", "-", " ", "\t", "!", "U+00C9", "U+00E9", "U+0130"}

\* String.prototype.toLowerCase on one character.
LowerChar(c) ==
    CASE c = "A" -> <<"a">>
      [] c = "U+00C9" -> <<"U+00E9">>
      [] c = "U+0130" -> <<"i", "U+0307">>
      [] OTHER -> <<c>>

RECURSIVE ToLowerCase(_)
ToLowerCase(s) == IF s = <<>> THEN <<>> ELSE LowerChar(Head(s)) \o ToLowerCase(Tail(s))

\* \w without the u or i flag: [A-Za-z0-9_].
IsWordChar(c) == c \in {"a", "i", "A", "7", "_"}

\* The character class [^\w ] mutated to [^\w -]: the hyphen survives.
StripsKeepHyphen(c) == ~(IsWordChar(c) \/ c = " " \/ c = "-")

\* The character class [^\w ].
Strips(c) == ~(IsWordChar(c) \/ c = " ")

\* .replace(/[^\w ]+/g, ""): every run of stripped characters is removed.
StripNonWord(s) == SelectSeq(s, LAMBDA c : ~Strips(c))

RECURSIVE CollapseSpaces(_)
\* .replace(/ +/g, "-"): every maximal run of spaces becomes one hyphen.
CollapseSpaces(s) ==
    IF s = <<>> THEN <<>>
    ELSE IF Head(s) = " "
         THEN IF Len(s) > 1 /\ s[2] = " "
              THEN CollapseSpaces(Tail(s))
              ELSE <<"-">> \o CollapseSpaces(Tail(s))
         ELSE <<Head(s)>> \o CollapseSpaces(Tail(s))

slugify(text) == CollapseSpaces(StripNonWord(ToLowerCase(text)))

InitSlug ==
    /\ pc = "start"
    /\ args \in {[fn |-> "slugify", text |-> s] : s \in SeqsUpTo(SlugChars, MaxSlugLen)}
    /\ result = Pending
    /\ rerun = Pending
    /\ emitted = <<>>

Slugify ==
    /\ pc = "start"
    /\ args.fn = "slugify"
    /\ result' = Return(Str(slugify(args.text)))
    /\ pc' = "done"
    /\ UNCHANGED <<args, rerun, emitted>>

NextSlug == Slugify

SpecSlug == InitSlug /\ [][NextSlug]_vars

\* The characters of [a-z0-9_-] among the model's characters.
SlugAlphabet == {"a", "i", "7", "_", "-"}

\* C8: every character of slugify's output is in [a-z0-9_-], and the output
\* never contains two adjacent hyphens.
C8_SlugAlphabet ==
    (pc = "done" /\ args.fn = "slugify") =>
        LET out == result.value.s IN
        /\ \A i \in 1..Len(out) : out[i] \in SlugAlphabet
        /\ \A i \in 1..(Len(out) - 1) : ~(out[i] = "-" /\ out[i + 1] = "-")

\* C8 witness: two spaces around a stripped hyphen have been slugified; the
\* stripping joins them into one run, which becomes one hyphen.
C8_Witness ==
    /\ pc = "done"
    /\ args.fn = "slugify"
    /\ args.text = <<" ", "-", " ">>
    /\ result.value.s = <<"-">>

-----------------------------------------------------------------------------
(* transformEmptyValues *)

\* Bound: the most nodes (scalars, mappings and sequences, the root included)
\* of a value transformEmptyValues is applied to.
MaxNodes == 3

\* An option the caller's bundle does not hold at all (reading it gives
\* undefined, like an option explicitly set to undefined).
Absent == [t |-> "absent"]

\* A caller's isEmptyFn, by name.
Fn(name) == [t |-> "function", name |-> name]

\* The scalars inside the inputs: null, 0, "", " " and "x".
TevScalars == {Null, Num(0), Str(<<>>), Str(<<" ">>), Str(<<"x">>)}

\* The keys of the inputs' mappings.
TevKeys == {"a", "b"}

\* The sequences of k distinct keys.
KeySeqs(k) == {ks \in [1..k -> TevKeys] : \A i, j \in 1..k : i # j => ks[i] # ks[j]}

RECURSIVE ValuesOfSize(_), SeqsOfSize(_)
\* The values of exactly n nodes.
ValuesOfSize(n) ==
    (IF n = 1 THEN TevScalars ELSE {})
    \cup {Arr(e) : e \in SeqsOfSize(n - 1)}
    \cup UNION {{Obj(ks, e) : ks \in KeySeqs(Len(e))} : e \in SeqsOfSize(n - 1)}

\* The sequences of values of n nodes in all.
SeqsOfSize(n) ==
    IF n = 0 THEN {<<>>}
    ELSE UNION {{<<v>> \o r : v \in ValuesOfSize(k), r \in SeqsOfSize(n - k)} : k \in 1..n}

TevInputs == UNION {ValuesOfSize(n) : n \in 1..MaxNodes}

\* The option bundles: replaceWith left out, explicitly undefined, a number,
\* the empty string or a mapping holding an empty string; trimStrings left out
\* or false; processEmptyArrays left out or true; isEmptyFn left out, the
\* test's (value) => value === 0, the README's (val) => typeof val ===
\* "number", or one that looks inside a sequence:
\* (v) => Array.isArray(v) && v.includes(null).
TevOptions ==
    [replaceWith : {Absent, Undefined, Num(0), Str(<<>>), Obj(<<"a">>, <<Str(<<>>)>>)},
     trimStrings : {Absent, Bool(FALSE)},
     processEmptyArrays : {Absent, Bool(TRUE)},
     isEmptyFn : {Absent, Fn("isZero"), Fn("isNumber"), Fn("hasNull")}]

\* Reading a property of the options object.
Get(o, field) == IF o[field] = Absent THEN Undefined ELSE o[field]

\* A destructuring default, mutated to apply only to a property the object
\* does not hold.
DefaultIfMissing(o, field, dflt) == IF o[field] = Absent THEN dflt ELSE o[field]

\* A destructuring default: it applies when the property reads undefined.
Default(o, field, dflt) == IF Get(o, field) = Undefined THEN dflt ELSE Get(o, field)

\* Truthiness: undefined, null, false, 0, NaN and "" are falsy.
Truthy(x) ==
    CASE x.t = "undefined" -> FALSE
      [] x.t = "null" -> FALSE
      [] x.t = "boolean" -> x.b
      [] x.t = "number" -> "n" \in DOMAIN x /\ x.n # 0
      [] x.t = "string" -> x.s # <<>>
      [] OTHER -> TRUE

IsSpace(c) == c \in {" ", "\t"}

RECURSIVE TrimStart(_)
TrimStart(s) == IF s # <<>> /\ IsSpace(Head(s)) THEN TrimStart(Tail(s)) ELSE s

RECURSIVE TrimEnd(_)
TrimEnd(s) ==
    IF s # <<>> /\ IsSpace(s[Len(s)]) THEN TrimEnd(SubSeq(s, 1, Len(s) - 1)) ELSE s

\* String.prototype.trim.
Trim(s) == TrimEnd(TrimStart(s))

\* Calling the caller's isEmptyFn.
ApplyFn(f, value) ==
    CASE f.name = "isZero" -> value.t = "number" /\ value.n = 0
      [] f.name = "isNumber" -> value.t = "number"
      [] f.name = "hasNull" ->
            IsArray(value) /\ \E i \in 1..Len(value.e) : value.e[i] = Null

\* The options after the defaults.
replaceWithMissing(options) == DefaultIfMissing(options, "replaceWith", Null)

replaceWith(options) == Default(options, "replaceWith", Null)

trimStrings(options) == Default(options, "trimStrings", Bool(TRUE))

processEmptyArrays(options) == Default(options, "processEmptyArrays", Bool(FALSE))

\* isEmpty with the trimStrings option ignored: strings are always trimmed.
isEmptyAlwaysTrim(value, options) ==
    IF Truthy(Get(options, "isEmptyFn")) THEN ApplyFn(options.isEmptyFn, value)
    ELSE IF value.t = "string" THEN Trim(value.s) = <<>>
    ELSE IF Truthy(processEmptyArrays(options)) /\ IsArray(value)
         THEN Len(value.e) = 0
    ELSE FALSE

isEmpty(value, options) ==
    IF Truthy(Get(options, "isEmptyFn")) THEN ApplyFn(options.isEmptyFn, value)
    ELSE IF value.t = "string"
         THEN IF Truthy(trimStrings(options)) THEN Trim(value.s) = <<>>
              ELSE value.s = <<>>
    ELSE IF Truthy(processEmptyArrays(options)) /\ IsArray(value)
         THEN Len(value.e) = 0
    ELSE FALSE

\* The place each result takes when the results are gathered back to front
\* (each one put before those gathered so far).
PlaceReversed(i, n) == n + 1 - i

\* The place the result for element i of n takes in what Array.prototype.map
\* returns, and in the mapping the loop over Object.entries fills: its own.
Place(i, n) == i

RECURSIVE transformEmptyValues(_, _)
transformEmptyValues(input, options) ==
    IF input = Null \/ ~IsObjectLike(input) THEN Throw("TypeError")
    ELSE IF isEmpty(input, options) THEN Return(replaceWith(options))
    ELSE LET item(x) ==
                 IF IsObjectLike(x) THEN transformEmptyValues(x, options).value
                 ELSE IF isEmpty(x, options) THEN replaceWith(options)
                 ELSE x
         IN  IF IsArray(input)
             THEN LET n == Len(input.e)
                  IN  Return(Arr([i \in 1..n |-> item(input.e[Place(i, n)])]))
             ELSE Return(Obj(input.k, [i \in 1..Len(input.v) |-> item(input.v[i])]))

InitTev ==
    /\ pc = "start"
    /\ args \in [fn : {"transformEmptyValues"}, input : TevInputs, options : TevOptions]
    /\ result = Pending
    /\ rerun = Pending
    /\ emitted = <<>>

\* The call.
Transform ==
    /\ pc = "start"
    /\ args.fn = "transformEmptyValues"
    /\ result' = transformEmptyValues(args.input, args.options)
    /\ pc' = "done"
    /\ UNCHANGED <<args, rerun, emitted>>

\* A second call, on the first call's output and with the same options.
TransformAgain ==
    /\ pc = "done"
    /\ args.fn = "transformEmptyValues"
    /\ result.kind = "return"
    /\ rerun' = transformEmptyValues(result.value, args.options)
    /\ pc' = "again"
    /\ UNCHANGED <<args, result, emitted>>

NextTev == Transform \/ TransformAgain

SpecTev == InitTev /\ [][NextTev]_vars

\* The value at a path (a sequence of child indices) of a value, or Missing.
Missing == [t |-> "missing"]

Children(v) == IF v.t = "array" THEN v.e ELSE IF v.t = "object" THEN v.v ELSE <<>>

RECURSIVE At(_, _)
At(v, p) ==
    IF p = <<>> THEN v
    ELSE IF Head(p) \in 1..Len(Children(v)) THEN At(Children(v)[Head(p)], Tail(p))
    ELSE Missing

\* The paths of a value.
RECURSIVE Paths(_)
Paths(v) ==
    {<<>>} \cup UNION {{<<i>> \o q : q \in Paths(Children(v)[i])} : i \in 1..Len(Children(v))}

\* The emptiness rule in force, as the specification words it: isEmptyFn alone
\* when it is supplied; otherwise a string of whitespace only (of no character
\* at all when trimStrings is false) and, when processEmptyArrays is true, a
\* sequence of no elements.
RuleEmpty(v, o) ==
    IF o.isEmptyFn \notin {Absent, Undefined} THEN ApplyFn(o.isEmptyFn, v)
    ELSE \/ /\ v.t = "string"
            /\ IF o.trimStrings = Bool(FALSE) THEN Len(v.s) = 0
               ELSE \A i \in 1..Len(v.s) : IsSpace(v.s[i])
         \/ /\ v.t = "array"
            /\ o.processEmptyArrays = Bool(TRUE)
            /\ Len(v.e) = 0

\* The replacement in force: the replaceWith option, null when it is left out
\* or undefined.
RuleReplacement(o) == IF o.replaceWith \in {Absent, Undefined} THEN Null ELSE o.replaceWith

\* No value above path p of v is empty under the rule (so p is not inside a
\* value that was replaced as a whole).
Live(v, p, o) == \A n \in 0..(Len(p) - 1) : ~RuleEmpty(At(v, SubSeq(p, 1, n)), o)

C2_Idempotent ==
    (pc = "again" /\ args.fn = "transformEmptyValues" /\ IsObjectLike(args.input))
    => rerun = result

\* isEmptyFn, when supplied, is false of every mapping and sequence that has an
\* element.
FnSparesNonEmpty(o) ==
    o.isEmptyFn \in {Absent, Undefined}
    \/ \A v \in TevInputs :
         (IsObjectLike(v) /\ Len(Children(v)) > 0) => ~ApplyFn(o.isEmptyFn, v)

\* C2 as amended: when the input is not itself empty under the rule in force,
\* replaceWith is not a mapping or a sequence, and isEmptyFn (if supplied) is
\* false of every mapping and sequence that has an element, the second call
\* succeeds and returns the first call's output.
C2_IdempotentAmended ==
    (/\ pc = "again"
     /\ args.fn = "transformEmptyValues"
     /\ IsObjectLike(args.input)
     /\ ~RuleEmpty(args.input, args.options)
     /\ ~IsObjectLike(RuleReplacement(args.options))
     /\ FnSparesNonEmpty(args.options))
    => rerun = result

\* C2 witness: the second call has run on [null, "x"], the output for
\* [" ", "x"], and returned it.
C2_Witness ==
    /\ pc = "again"
    /\ args.fn = "transformEmptyValues"
    /\ args.input = Arr(<<Str(<<" ">>), Str(<<"x">>)>>)
    /\ args.options.replaceWith = Absent
    /\ args.options.isEmptyFn = Absent
    /\ result = Return(Arr(<<Null, Str(<<"x">>)>>))
    /\ rerun = result

-----------------------------------------------------------------------------
(* extractNumber *)

\* Bound: the longest string extractNumber is applied to.
MaxNumLen == 4

\* Characters: two digits, the minus sign, the dot, a letter and the space.
NumChars == {"0", "1", "-", ".", "x", " "}

IsDigit(c) == c \in {"0", "1"}

DigitValue(c) == IF c = "1" THEN 1 ELSE 0

\* The end (the index of its last character) of the longest run of digits
\* that starts at p, or p - 1 when there is none: \d+ is greedy.
RECURSIVE DigitsEnd(_, _)
DigitsEnd(s, p) ==
    IF p <= Len(s) /\ IsDigit(s[p]) THEN DigitsEnd(s, p + 1) ELSE p - 1

\* The end of the match of the pattern at p, or 0 when it does not match
\* there.  The pattern is -? (when allowNegative), \d+, (?:\.\d+)? (when
\* allowDecimals).
MatchEndAt(s, p, allowDecimals, allowNegative) ==
    LET d == IF allowNegative /\ s[p] = "-" THEN p + 1 ELSE p
        e == DigitsEnd(s, d)
        f == IF allowDecimals /\ e + 1 <= Len(s) /\ s[e + 1] = "."
             THEN DigitsEnd(s, e + 2)
             ELSE e
    IN  IF e < d THEN 0 ELSE IF f > e + 1 THEN f ELSE e

\* str.match(regex) with the g flag: every match, from left to right, each
\* search starting where the last match ended.
RECURSIVE AllMatches(_, _, _, _)
AllMatches(s, p, allowDecimals, allowNegative) ==
    IF p > Len(s) THEN <<>>
    ELSE LET e == MatchEndAt(s, p, allowDecimals, allowNegative)
         IN  IF e = 0 THEN AllMatches(s, p + 1, allowDecimals, allowNegative)
             ELSE <<SubSeq(s, p, e)>> \o AllMatches(s, e + 1, allowDecimals, allowNegative)

\* The number a sequence of digits writes in base 10.
RECURSIVE DigitsValue(_)
DigitsValue(ds) ==
    IF ds = <<>> THEN 0
    ELSE 10 * DigitsValue(SubSeq(ds, 1, Len(ds) - 1)) + DigitValue(ds[Len(ds)])

RECURSIVE Pow10(_)
Pow10(k) == IF k = 0 THEN 1 ELSE 10 * Pow10(k - 1)

\* n/d in lowest terms of ten.
RECURSIVE Normal(_, _)
Normal(n, d) == IF d > 1 /\ n % 10 = 0 THEN Normal(n \div 10, d \div 10) ELSE Dec(n, d)

NaN == [t |-> "number", nan |-> TRUE]

\* parseInt(text, 10): an optional sign and the longest run of digits after
\* it; what follows is ignored; NaN when there is no digit.
parseInt(text) ==
    LET neg == text # <<>> /\ Head(text) = "-"
        d == IF neg THEN 2 ELSE 1
        e == DigitsEnd(text, d)
        v == DigitsValue(SubSeq(text, d, e))
    IN  IF e < d THEN NaN ELSE Num(IF neg THEN 0 - v ELSE v)

\* parseFloat(text): an optional sign, the longest run of digits and, if a dot
\* and then digits follow, those as the fraction; what follows is ignored.
parseFloat(text) ==
    LET neg == text # <<>> /\ Head(text) = "-"
        d == IF neg THEN 2 ELSE 1
        e == DigitsEnd(text, d)
        f == IF e + 1 <= Len(text) /\ text[e + 1] = "." THEN DigitsEnd(text, e + 2) ELSE e + 1
        frac == IF f > e + 1 THEN SubSeq(text, e + 2, f) ELSE <<>>
        v == DigitsValue(SubSeq(text, d, e) \o frac)
    IN  IF e < d THEN NaN ELSE Normal(IF neg THEN 0 - v ELSE v, Pow10(Len(frac)))

extractNumber(str, options) ==
    IF str.t # "string" THEN Throw("TypeError")
    ELSE LET allowDecimals == Truthy(Default(options, "allowDecimals", Bool(FALSE)))
             allowNegative == Truthy(Default(options, "allowNegative", Bool(FALSE)))
             defaultValue == Default(options, "defaultValue", Num(0))
             matches == AllMatches(str.s, 1, allowDecimals, allowNegative)
             number == Flatten(matches)
             parsed == IF allowDecimals THEN parseFloat(number) ELSE parseInt(number)
         IN  IF Trim(str.s) = <<>> THEN Return(defaultValue)
             ELSE IF matches = <<>> THEN Return(defaultValue)
             ELSE IF parsed = NaN THEN Return(defaultValue)
             ELSE Return(parsed)

NumOptions ==
    [allowDecimals : {Absent, Bool(TRUE)},
     allowNegative : {Absent, Bool(TRUE)},
     defaultValue : {Absent, Num(-1)}]

InitNum ==
    /\ pc = "start"
    /\ args \in [fn : {"extractNumber"},
                 str : {Str(s) : s \in SeqsUpTo(NumChars, MaxNumLen)} \cup {Num(5), Null},
                 options : NumOptions]
    /\ result = Pending
    /\ rerun = Pending
    /\ emitted = <<>>

Extract ==
    /\ pc = "start"
    /\ args.fn = "extractNumber"
    /\ result' = extractNumber(args.str, args.options)
    /\ pc' = "done"
    /\ UNCHANGED <<args, rerun, emitted>>

NextNum == Extract

SpecNum == InitNum /\ [][NextNum]_vars

\* The index of the first digit of s, or 0.
RECURSIVE FirstDigit(_, _)
FirstDigit(s, p) ==
    IF p > Len(s) THEN 0 ELSE IF IsDigit(s[p]) THEN p ELSE FirstDigit(s, p + 1)

\* C4: with allowDecimals false, the result is the integer written by the
\* digits of all the matches in order (which are all the digits of the input),
\* negative when the first match starts with a minus sign, and it is
\* defaultValue exactly when the trimmed input is empty or has no match.
C4_AllDigitsOneNumber ==
    (/\ pc = "done"
     /\ args.fn = "extractNumber"
     /\ args.str.t = "string"
     /\ args.options.allowDecimals = Absent)
    => LET s == args.str.s
           digits == SelectSeq(s, IsDigit)
           first == FirstDigit(s, 1)
           neg == /\ args.options.allowNegative = Bool(TRUE)
                  /\ first > 1
                  /\ s[first - 1] = "-"
           dflt == IF args.options.defaultValue = Absent THEN Num(0)
                   ELSE args.options.defaultValue
           v == DigitsValue(digits)
       IN  result = IF digits = <<>> THEN Return(dflt)
                    ELSE Return(Num(IF neg THEN 0 - v ELSE v))

-----------------------------------------------------------------------------
(* resolveObjectPath *)

\* Bound: the most segments of a path.
MaxSegments == 3

\* Bound: the most elements of the top-level sequence.
MaxUsers == 2

\* Keys are one character long: "u" for user, "n" for name, "a" for addresses,
\* "c" for city.  A segment may be empty (a leading, trailing or double dot).
PathSegments == {<<>>, <<"u">>, <<"n">>, <<"a">>, <<"c">>}

RECURSIVE Join(_, _)
\* Array.prototype.join.
Join(ss, sep) ==
    IF ss = <<>> THEN <<>>
    ELSE IF Len(ss) = 1 THEN Head(ss)
    ELSE Head(ss) \o sep \o Join(Tail(ss), sep)

PathStrings ==
    {Join(segs, <<".">>) : segs \in SeqsUpTo(PathSegments, MaxSegments) \ {<<>>}}

NY == Str(<<"N", "Y">>)

LA == Str(<<"L", "A">>)

\* A user: a mapping with a name (or none) and addresses (or none).
User(name, addresses) ==
    Obj((IF name = Absent THEN <<>> ELSE <<"n">>)
            \o (IF addresses = Absent THEN <<>> ELSE <<"a">>),
        (IF name = Absent THEN <<>> ELSE <<name>>)
            \o (IF addresses = Absent THEN <<>> ELSE <<addresses>>))

City(c) == Obj(<<"c">>, <<c>>)

PathUsers ==
    {User(name, addresses) :
        name \in {Absent, Num(0), Bool(FALSE), Str(<<>>), Null, Str(<<"J">>)},
        addresses \in {Absent, Arr(<<>>), Arr(<<City(NY)>>), Arr(<<City(NY), City(LA)>>)}}

\* The data: a sequence of users, one user, a mapping holding one user under
\* "u", or no data at all.
PathData ==
    {Arr(us) : us \in SeqsUpTo(PathUsers, MaxUsers)}
    \cup PathUsers
    \cup {Obj(<<"u">>, <<u>>) : u \in PathUsers}
    \cup {Null, Undefined, Num(0)}

RECURSIVE Split(_, _)
\* String.prototype.split: the segments of path between the separators, the
\* empty ones included.
Split(path, sep) ==
    IF \E i \in 1..Len(path) : path[i] = sep
    THEN LET i == CHOOSE i \in 1..Len(path) :
                      path[i] = sep /\ \A j \in 1..(i - 1) : path[j] # sep
         IN  <<SubSeq(path, 1, i - 1)>> \o Split(SubSeq(path, i + 1, Len(path)), sep)
    ELSE <<path>>

\* current[firstKey]: the property of a mapping, undefined when it has none;
\* a scalar has none of the keys used here.
Lookup(current, key) ==
    IF current.t = "object" /\ \E i \in 1..Len(current.k) : <<current.k[i]>> = key
    THEN current.v[CHOOSE i \in 1..Len(current.k) : <<current.k[i]>> = key]
    ELSE Undefined

\* Array.prototype.flat: one level.
Flat(results) ==
    Flatten([i \in 1..Len(results) |->
                IF IsArray(results[i]) THEN results[i].e ELSE <<results[i]>>])

RECURSIVE traverse(_, _)
traverse(current, keyLeft) ==
    IF current = Null \/ current = Undefined THEN Undefined
    ELSE IF IsArray(current)
         THEN LET results ==
                      SelectSeq([i \in 1..Len(current.e) |-> traverse(current.e[i], keyLeft)],
                                Truthy)
              IN  IF Len(results) # 0 THEN Arr(Flat(results)) ELSE Undefined
    ELSE LET firstKey == Head(keyLeft)
             restKeys == Tail(keyLeft)
             next == Lookup(current, firstKey)
         IN  IF next = Undefined THEN Undefined
             ELSE IF Len(restKeys) = 0 THEN next
             ELSE traverse(next, restKeys)

resolveObjectPath(data, path) ==
    IF ~Truthy(data) THEN Return(Undefined)
    ELSE IF path = <<>> THEN Return(data)
    ELSE LET keys == Split(path, ".")
         IN  IF \E i \in 1..Len(keys) : keys[i] = <<>> THEN Return(Undefined)
             ELSE Return(traverse(data, keys))

InitPath ==
    /\ pc = "start"
    /\ args \in [fn : {"resolveObjectPath"}, data : PathData, path : PathStrings]
    /\ result = Pending
    /\ rerun = Pending
    /\ emitted = <<>>

Resolve ==
    /\ pc = "start"
    /\ args.fn = "resolveObjectPath"
    /\ result' = resolveObjectPath(args.data, args.path)
    /\ pc' = "done"
    /\ UNCHANGED <<args, rerun, emitted>>

NextPath == Resolve

SpecPath == InitPath /\ [][NextPath]_vars

\* Whether a mapping has the field.
HasField(o, key) == \E i \in 1..Len(o.k) : o.k[i] = key

FieldOf(o, key) == o.v[CHOOSE i \in 1..Len(o.k) : o.k[i] = key]

\* C3: for a top-level sequence of mappings and a path of one segment, the
\* result holds the field's value of every element that has the field, in
\* element order, whatever the value; it is undefined only if no element has
\* the field.
C3_OneValuePerElement ==
    (/\ pc = "done"
     /\ args.fn = "resolveObjectPath"
     /\ IsArray(args.data)
     /\ \A i \in 1..Len(args.data.e) : args.data.e[i].t = "object"
     /\ Len(args.path) = 1
     /\ args.path # <<".">>)
    => LET key == args.path[1]
           having == SelectSeq(args.data.e, LAMBDA o : HasField(o, key))
           values == [i \in 1..Len(having) |-> FieldOf(having[i], key)]
       IN  result = IF values = <<>> THEN Return(Undefined) ELSE Return(Arr(values))

\* C9: for a top-level sequence of two users, each with the addresses NY and
\* LA, the path addresses.city gives ["NY", "LA"].
C9_ReadmeTwoUsers ==
    (/\ pc = "done"
     /\ args.fn = "resolveObjectPath"
     /\ IsArray(args.data)
     /\ Len(args.data.e) = 2
     /\ \A i \in 1..2 : /\ HasField(args.data.e[i], "a")
                        /\ FieldOf(args.data.e[i], "a") = Arr(<<City(NY), City(LA)>>)
     /\ args.path = <<"a", ".", "c">>)
    => result = Return(Arr(<<NY, LA>>))

-----------------------------------------------------------------------------
(* replaceString *)

\* Bound: the longest text replaceString is applied to.
MaxTextLen == 2

\* Bound: the longest key of a replacement map.
MaxKeyLen == 2

\* Bound: the most keys of a replacement map.
MaxKeys == 2

\* Characters: a letter in both cases and two pattern metacharacters.
ReplChars == {"a", "A", ".", "+"}

\* The metacharacters escapeRegexStr escapes: . * + ? ^ $ { } ( ) | [ ] \
IsMeta(c) == c \in {".", "*", "+", "?", "^", "$", "{", "}", "(", ")", "|", "[", "]", "\\"}

DigitChar(d) == <<"0", "1", "2", "3", "4", "5", "6", "7", "8", "9">>[d + 1]

RECURSIVE NatToString(_)
NatToString(n) ==
    IF n < 10 THEN <<DigitChar(n)>> ELSE NatToString(n \div 10) \o <<DigitChar(n % 10)>>

\* String(value), and the ToString that String.prototype.replace applies to
\* what the replacer returns.
StringOf(value) ==
    CASE value.t = "string" -> value.s
      [] value.t = "number" ->
            IF value.n < 0 THEN <<"-">> \o NatToString(0 - value.n) ELSE NatToString(value.n)
      [] value.t = "boolean" ->
            IF value.b THEN <<"t", "r", "u", "e">> ELSE <<"f", "a", "l", "s", "e">>
      [] value.t = "null" -> <<"n", "u", "l", "l">>
      [] value.t = "undefined" -> <<"u", "n", "d", "e", "f", "i", "n", "e", "d">>

\* Object.keys: of a mapping its keys; of a sequence its indices as strings.
Keys(x) ==
    IF IsArray(x) THEN [i \in 1..Len(x.e) |-> NatToString(i - 1)] ELSE x.k

\* The values in the order of Object.keys.
Values(x) == IF IsArray(x) THEN x.e ELSE x.v

\* stringReplacements: every value through String, the keys as they were.
StringReplacements(replacements) ==
    Obj(Keys(replacements),
        [i \in 1..Len(Values(replacements)) |-> Str(StringOf(Values(replacements)[i]))])

\* stringReplacements[key]: undefined when the mapping has no such key.
Property(o, key) ==
    IF \E i \in 1..Len(o.k) : o.k[i] = key
    THEN o.v[CHOOSE i \in 1..Len(o.k) : o.k[i] = key]
    ELSE Undefined

RECURSIVE escapeRegexStr(_, _)
\* str.replace(/[.*+?^${}()|[\]\\]/g, "\\$&") when escapeRegex, else str.
escapeRegexStr(str, escapeRegex) ==
    IF ~escapeRegex \/ str = <<>> THEN str
    ELSE (IF IsMeta(Head(str)) THEN <<"\\", Head(str)>> ELSE <<Head(str)>>)
         \o escapeRegexStr(Tail(str), escapeRegex)

\* The pattern's source: the keys, escaped or not, joined by "|".
Pattern(keys, escapeRegex) ==
    Join([i \in 1..Len(keys) |-> escapeRegexStr(keys[i], escapeRegex)], <<"|">>)

\* An atom of a compiled pattern: a literal character or the wildcard, one or
\* more times when plus.
Atom(kind, c) == [kind |-> kind, c |-> c, plus |-> FALSE]

SyntaxError == [error |-> TRUE]

RECURSIVE Compile(_, _, _, _)
\* new RegExp(pattern): the alternatives, each a sequence of atoms, or a
\* SyntaxError.  A backslash makes the next character a literal; "|" ends an
\* alternative; "." is the wildcard; "+" repeats the atom before it and is an
\* error ("nothing to repeat") where there is none or it is repeated already.
Compile(pattern, i, atoms, alts) ==
    IF i > Len(pattern) THEN [error |-> FALSE, alts |-> Append(alts, atoms)]
    ELSE LET c == pattern[i]
         IN  IF c = "\\"
             THEN IF i = Len(pattern) THEN SyntaxError
                  ELSE Compile(pattern, i + 2, Append(atoms, Atom("lit", pattern[i + 1])), alts)
             ELSE IF c = "|" THEN Compile(pattern, i + 1, <<>>, Append(alts, atoms))
             ELSE IF c = "." THEN Compile(pattern, i + 1, Append(atoms, Atom("any", c)), alts)
             ELSE IF c = "+"
                  THEN IF atoms = <<>> \/ atoms[Len(atoms)].plus THEN SyntaxError
                       ELSE Compile(pattern, i + 1,
                                    [atoms EXCEPT ![Len(atoms)].plus = TRUE], alts)
             ELSE Compile(pattern, i + 1, Append(atoms, Atom("lit", c)), alts)

\* Whether an atom matches a character; with the i flag letters are compared
\* in one case.
AtomMatches(atom, c, ignoreCase) ==
    \/ atom.kind = "any"
    \/ atom.c = c
    \/ ignoreCase /\ LowerChar(atom.c) = LowerChar(c)

\* How many characters from pos on the atom matches in a row.
RECURSIVE RunLength(_, _, _, _)
RunLength(atom, text, pos, ignoreCase) ==
    IF pos <= Len(text) /\ AtomMatches(atom, text[pos], ignoreCase)
    THEN 1 + RunLength(atom, text, pos + 1, ignoreCase)
    ELSE 0

RECURSIVE MatchFrom(_, _, _, _, _), TryPlus(_, _, _, _, _, _)
\* The position after the match of atoms i.. at pos, or 0 when there is none:
\* a repeated atom takes as many characters as it can and gives back one at a
\* time while the rest does not match.
MatchFrom(atoms, i, text, pos, ignoreCase) ==
    IF i > Len(atoms) THEN pos
    ELSE IF atoms[i].plus
         THEN TryPlus(atoms, i, text, pos, ignoreCase,
                      RunLength(atoms[i], text, pos, ignoreCase))
    ELSE IF pos <= Len(text) /\ AtomMatches(atoms[i], text[pos], ignoreCase)
         THEN MatchFrom(atoms, i + 1, text, pos + 1, ignoreCase)
    ELSE 0

TryPlus(atoms, i, text, pos, ignoreCase, k) ==
    IF k = 0 THEN 0
    ELSE LET e == MatchFrom(atoms, i + 1, text, pos + k, ignoreCase)
         IN  IF e # 0 THEN e ELSE TryPlus(atoms, i, text, pos, ignoreCase, k - 1)

\* The position after the match at pos of the first alternative that matches
\* there, or 0.
MatchAt(alts, text, pos, ignoreCase) ==
    IF \E j \in 1..Len(alts) : MatchFrom(alts[j], 1, text, pos, ignoreCase) # 0
    THEN MatchFrom(alts[CHOOSE j \in 1..Len(alts) :
                            /\ MatchFrom(alts[j], 1, text, pos, ignoreCase) # 0
                            /\ \A h \in 1..(j - 1) :
                                 MatchFrom(alts[h], 1, text, pos, ignoreCase) = 0],
                   1, text, pos, ignoreCase)
    ELSE 0

RECURSIVE MatchList(_, _, _, _, _)
\* The matches String.prototype.replace works on, each [at, next] (the match
\* is text[at..next-1]): the leftmost from lastIndex on; without the g flag
\* only the first; with it the search goes on after the match, one character
\* further after an empty match.
MatchList(alts, text, lastIndex, ignoreCase, replaceAll) ==
    IF \E p \in lastIndex..(Len(text) + 1) : MatchAt(alts, text, p, ignoreCase) # 0
    THEN LET at == CHOOSE p \in lastIndex..(Len(text) + 1) :
                       /\ MatchAt(alts, text, p, ignoreCase) # 0
                       /\ \A q \in lastIndex..(p - 1) : MatchAt(alts, text, q, ignoreCase) = 0
             next == MatchAt(alts, text, at, ignoreCase)
         IN  <<[at |-> at, next |-> next]>>
             \o (IF replaceAll
                 THEN MatchList(alts, text, IF next = at THEN next + 1 ELSE next,
                                ignoreCase, replaceAll)
                 ELSE <<>>)
    ELSE <<>>

\* The replacer: what the callback returns for a match.
Replacer(matched, stringReplacements, ignoreCase) ==
    LET keys == stringReplacements.k
        key == IF ignoreCase
               THEN IF \E i \in 1..Len(keys) : ToLowerCase(keys[i]) = ToLowerCase(matched)
                    THEN Str(keys[CHOOSE i \in 1..Len(keys) :
                                    /\ ToLowerCase(keys[i]) = ToLowerCase(matched)
                                    /\ \A h \in 1..(i - 1) :
                                         ToLowerCase(keys[h]) # ToLowerCase(matched)])
                    ELSE Undefined
               ELSE Str(matched)
    IN  IF Truthy(key) THEN Property(stringReplacements, key.s) ELSE Str(matched)

RECURSIVE Assemble(_, _, _, _, _)
\* The result of String.prototype.replace: the text between the matches kept,
\* each match replaced by ToString of what the replacer returned for it.
Assemble(text, matches, log, m, from) ==
    IF m > Len(matches) THEN SubSeq(text, from, Len(text))
    ELSE SubSeq(text, from, matches[m].at - 1)
         \o StringOf(log[m].returned)
         \o Assemble(text, matches, log, m + 1, matches[m].next)

\* The call: its outcome and the log of the replacer's calls.
replaceString(text, replacements, options) ==
    IF text.t # "string" THEN [outcome |-> Throw("TypeError"), log |-> <<>>]
    ELSE IF ~Truthy(replacements) \/ ~IsObjectLike(replacements)
         THEN [outcome |-> Throw("TypeError"), log |-> <<>>]
    ELSE IF ~Truthy(text) \/ Len(Keys(replacements)) = 0
         THEN [outcome |-> Return(text), log |-> <<>>]
    ELSE LET ignoreCase == Truthy(Default(options, "ignoreCase", Bool(TRUE)))
             replaceAll == Truthy(Default(options, "replaceAll", Bool(TRUE)))
             escapeRegex == Truthy(Default(options, "escapeRegex", Bool(TRUE)))
             stringReplacements == StringReplacements(replacements)
             regex == Compile(Pattern(stringReplacements.k, escapeRegex), 1, <<>>, <<>>)
         IN  IF regex.error THEN [outcome |-> Throw("SyntaxError"), log |-> <<>>]
             ELSE LET matches == MatchList(regex.alts, text.s, 1, ignoreCase, replaceAll)
                      log == [m \in 1..Len(matches) |->
                                 LET matched == SubSeq(text.s, matches[m].at, matches[m].next - 1)
                                 IN  [matched |-> matched,
                                      returned |-> Replacer(matched, stringReplacements,
                                                            ignoreCase)]]
                  IN  [outcome |-> Return(Str(Assemble(text.s, matches, log, 1, 1))),
                       log |-> log]

ReplKeys == SeqsUpTo(ReplChars, MaxKeyLen)

ReplValues == {Str(<<"a", "a">>), Bool(FALSE)}

\* The replacement maps: up to MaxKeys distinct keys, in any order.
ReplMaps ==
    UNION {{Obj(ks, vs) : ks \in {q \in [1..k -> ReplKeys] :
                                     \A i, j \in 1..k : i # j => q[i] # q[j]},
                          vs \in [1..k -> ReplValues]} : k \in 0..MaxKeys}

ReplOptions ==
    [ignoreCase : {Absent, Bool(FALSE)},
     replaceAll : {Absent, Bool(FALSE)},
     escapeRegex : {Absent, Bool(FALSE)}]

InitRepl ==
    /\ pc = "start"
    /\ args \in [fn : {"replaceString"},
                 text : {Str(s) : s \in SeqsUpTo(ReplChars, MaxTextLen)} \cup {Num(5), Null},
                 replacements : ReplMaps \cup {Null, Undefined, Num(5), Str(<<"a">>),
                                               Arr(<<>>), Arr(<<Str(<<"a">>)>>)},
                 options : ReplOptions]
    /\ result = Pending
    /\ rerun = Pending
    /\ emitted = <<>>

Replace ==
    /\ pc = "start"
    /\ args.fn = "replaceString"
    /\ LET r == replaceString(args.text, args.replacements, args.options)
       IN  /\ result' = r.outcome
           /\ emitted' = r.log
    /\ pc' = "done"
    /\ UNCHANGED <<args, rerun>>

NextRepl == Replace

SpecRepl == InitRepl /\ [][NextRepl]_vars

\* Whether an option is on: it is unless the caller set it to false.
IsOn(options, field) == options[field] # Bool(FALSE)

\* Whether key k occurs in text at pos, letters compared in one case.
KeyOccursAt(k, text, pos) ==
    /\ Len(k) > 0
    /\ pos + Len(k) - 1 <= Len(text)
    /\ ToLowerCase(SubSeq(text, pos, pos + Len(k) - 1)) = ToLowerCase(k)

\* What replaces an occurrence of the empty string: the value of the empty
\* key, nothing when the map has no such key.
EmptyKeyValue(map) ==
    IF \E i \in 1..Len(map.k) : map.k[i] = <<>>
    THEN StringOf(map.v[CHOOSE i \in 1..Len(map.k) : map.k[i] = <<>>])
    ELSE <<>>

RECURSIVE OnePass(_, _, _)
\* The texts a one-pass replacement of text from pos on may give: where keys
\* occur, one of them is replaced by its value and the pass goes on after the
\* occurrence (where keys overlap any of them may be the one); where none
\* occurs the character is kept; the empty key, if the map has it, occurs
\* before every character and at the end.  What was inserted is not searched.
OnePass(text, map, pos) ==
    IF pos > Len(text) THEN {EmptyKeyValue(map)}
    ELSE LET here == {i \in 1..Len(map.k) : KeyOccursAt(map.k[i], text, pos)}
         IN  IF here # {}
             THEN UNION {{e \o StringOf(map.v[i]) \o r :
                             e \in {<<>>, EmptyKeyValue(map)},
                             r \in OnePass(text, map, pos + Len(map.k[i]))} : i \in here}
             ELSE {EmptyKeyValue(map) \o <<text[pos]>> \o r : r \in OnePass(text, map, pos + 1)}

\* C1: with default options, for every text and every non-empty replacement
\* map (keys that overlap and the empty key included), the result is the text
\* with every occurrence of a key replaced by the key's stringified value, in
\* one pass.  Stated here for the texts that have a character: the empty text
\* is returned as it is before any search.
C1_OnePassReplacement ==
    (/\ pc = "done"
     /\ args.fn = "replaceString"
     /\ args.text.t = "string"
     /\ args.replacements.t = "object"
     /\ Len(args.replacements.k) > 0
     /\ Len(args.text.s) > 0
     /\ \A f \in {"ignoreCase", "replaceAll", "escapeRegex"} : args.options[f] = Absent)
    => /\ result.kind = "return"
       /\ result.value.s \in OnePass(args.text.s, args.replacements, 1)

\* C7: the call fails with a TypeError, before any replacement, whenever text
\* is not a string or replacements is not a mapping (null, undefined, a scalar
\* or a sequence); for a string and a mapping with escapeRegex true it does
\* not fail.
C7_TypeErrors ==
    (pc = "done" /\ args.fn = "replaceString")
    => /\ (args.text.t # "string" \/ args.replacements.t # "object")
            => (result = Throw("TypeError") /\ emitted = <<>>)
       /\ (/\ args.text.t = "string"
           /\ args.replacements.t = "object"
           /\ IsOn(args.options, "escapeRegex"))
            => result.kind = "return"

\* Whether the matched text resolves to a key of the map: with ignoreCase, some
\* key is the text up to case; without, the text is a key.
Resolves(matched, keys, ignoreCase) ==
    \E i \in 1..Len(keys) :
        IF ignoreCase THEN ToLowerCase(keys[i]) = ToLowerCase(matched)
        ELSE keys[i] = matched

\* C10: for every combination of ignoreCase and escapeRegex, a match that does
\* not resolve to a key of the map is left unchanged in the result.
C10_UnresolvedUnchanged ==
    (pc = "done" /\ args.fn = "replaceString" /\ result.kind = "return")
    => \A m \in 1..Len(emitted) :
         ~Resolves(emitted[m].matched, Keys(args.replacements),
                   IsOn(args.options, "ignoreCase"))
         => StringOf(emitted[m].returned) = emitted[m].matched

=============================================================================
